---- MODULE Spec2Model ----
(***************************************************************************)
(* Model of the moving-request voice assistant: the record store           *)
(* (src/db_driver.py), the assistant function context (src/api.py) and the *)
(* utterance router (src/agent.py, src/prompts.py).                        *)
(*                                                                         *)
(* Text is a sequence of one-character strings; the fixed pieces of an     *)
(* f-string or of a prompt are kept as single multi-character atoms, so    *)
(* that formatting is concatenation and user text can never be mistaken    *)
(* for a literal of the program.                                           *)
(***************************************************************************)
EXTENDS Integers, Sequences, FiniteSets, TLC

VARIABLES store, current_request_id, turn, call, created, rows, txn, conns

vars == <<store, current_request_id, turn, call, created, rows, txn, conns>>

(***************************************************************************)
(* Text helpers (Python str methods and the re module)                     *)
(***************************************************************************)

\* Python None, for Optional[str] values.
None == <<"None">>

\* The result of a store read that matched no row.
NoRecord == [none |-> TRUE]

UpperToLower ==
    ("A" :> "a") @@ ("B" :> "b") @@ ("C" :> "c") @@ ("D" :> "d") @@
    ("E" :> "e") @@ ("F" :> "f") @@ ("G" :> "g") @@ ("H" :> "h") @@
    ("I" :> "i") @@ ("J" :> "j") @@ ("K" :> "k") @@ ("L" :> "l") @@
    ("M" :> "m") @@ ("N" :> "n") @@ ("O" :> "o") @@ ("P" :> "p") @@
    ("Q" :> "q") @@ ("R" :> "r") @@ ("S" :> "s") @@ ("T" :> "t") @@
    ("U" :> "u") @@ ("V" :> "v") @@ ("W" :> "w") @@ ("X" :> "x") @@
    ("Y" :> "y") @@ ("Z" :> "z")

LowerLetters == {UpperToLower[c] : c \in DOMAIN UpperToLower}

DigitChars == <<"0", "1", "2", "3", "4", "5", "6", "7", "8", "9">>

IsDigit(c) == \E i \in 1..Len(DigitChars) : DigitChars[i] = c

\* \w of the re module.
IsWordChar(c) == IsDigit(c) \/ c \in LowerLetters \/ c \in DOMAIN UpperToLower \/ c = "_"

Whitespace == {" ", "\t", "\n"}

\* str.lower()
lower(s) == [i \in 1..Len(s) |-> IF s[i] \in DOMAIN UpperToLower THEN UpperToLower[s[i]] ELSE s[i]]

SetMin(S) == CHOOSE m \in S : \A n \in S : m <= n

SetMax(S) == CHOOSE m \in S : \A n \in S : n <= m

\* str.strip()
strip(s) ==
    LET keep == {i \in 1..Len(s) : s[i] \notin Whitespace}
    IN  IF keep = {} THEN <<>> ELSE SubSeq(s, SetMin(keep), SetMax(keep))

\* sub in s
Contains(sub, s) ==
    \E i \in 1..(Len(s) - Len(sub) + 1) : SubSeq(s, i, i + Len(sub) - 1) = sub

\* Truthiness of an Optional[str].
Truthy(v) == v # None /\ v # <<>>

RECURSIVE str_int(_)
\* str(n) of an int
str_int(n) ==
    IF n < 0 THEN <<"-">> \o str_int(-n)
    ELSE IF n < 10 THEN <<DigitChars[n + 1]>>
    ELSE str_int(n \div 10) \o <<DigitChars[(n % 10) + 1]>>

\* request_id_match taking the rightmost match instead of the leftmost
request_id_match_rightmost(content) ==
    LET starts == {i \in 1..(Len(content) - 5) :
                      /\ \A j \in i..(i + 5) : IsDigit(content[j])
                      /\ (i = 1 \/ ~IsWordChar(content[i - 1]))
                      /\ (i + 5 = Len(content) \/ ~IsWordChar(content[i + 6]))}
    IN  IF starts = {} THEN None
        ELSE SubSeq(content, SetMax(starts), SetMax(starts) + 5)

\* re.search(r'\b\d{6}\b', content): the leftmost six digits that are not
\* part of a longer run of word characters, or None.
request_id_match(content) ==
    LET starts == {i \in 1..(Len(content) - 5) :
                      /\ \A j \in i..(i + 5) : IsDigit(content[j])
                      /\ (i = 1 \/ ~IsWordChar(content[i - 1]))
                      /\ (i + 5 = Len(content) \/ ~IsWordChar(content[i + 6]))}
    IN  IF starts = {} THEN None
        ELSE SubSeq(content, SetMin(starts), SetMin(starts) + 5)

(***************************************************************************)
(* MovingRequest rows and the field sets passed to create / update         *)
(***************************************************************************)

cell == <<"c", "e", "l", "l">>
home == <<"h", "o", "m", "e">>
work == <<"w", "o", "r", "k">>
house == <<"h", "o", "u", "s", "e">>
apartment == <<"a", "p", "a", "r", "t", "m", "e", "n", "t">>

\* CHECK (phone_type IN ('cell', 'home', 'work'))
PhoneTypes == {cell, home, work}

\* CHECK (from_building_type IN ('house', 'apartment'))
BuildingTypes == {house, apartment}

\* MovingRequest binding from_address in the place of to_address
MovingRequest_swapped(request_id, f) ==
    [request_id         |-> request_id,
     customer_name      |-> strip(f.customer_name),
     email              |-> strip(f.email),
     phone_number       |-> strip(f.phone_number),
     phone_type         |-> lower(f.phone_type),
     from_address       |-> strip(f.from_address),
     from_building_type |-> lower(f.from_building_type),
     from_bedrooms      |-> f.from_bedrooms,
     to_address         |-> strip(f.from_address),
     move_date          |-> strip(f.move_date),
     flexible_date      |-> f.flexible_date,
     assist_car         |-> f.assist_car,
     car_year           |-> f.car_year,
     car_make           |-> f.car_make,
     car_model          |-> f.car_model]

\* The values bound to the INSERT / UPDATE statement for a field set f.
MovingRequest(request_id, f) ==
    [request_id         |-> request_id,
     customer_name      |-> strip(f.customer_name),
     email              |-> strip(f.email),
     phone_number       |-> strip(f.phone_number),
     phone_type         |-> lower(f.phone_type),
     from_address       |-> strip(f.from_address),
     from_building_type |-> lower(f.from_building_type),
     from_bedrooms      |-> f.from_bedrooms,
     to_address         |-> strip(f.to_address),
     move_date          |-> strip(f.move_date),
     flexible_date      |-> f.flexible_date,
     assist_car         |-> f.assist_car,
     car_year           |-> f.car_year,
     car_make           |-> f.car_make,
     car_model          |-> f.car_model]

\* A moving_requests table declared without CHECK constraints
TableChecks_absent(row) == TRUE

\* The CHECK constraints of the moving_requests table.
TableChecks(row) ==
    /\ row.phone_type \in PhoneTypes
    /\ row.from_building_type \in BuildingTypes
    /\ row.from_bedrooms > 0

(***************************************************************************)
(* DatabaseDriver (src/db_driver.py).  Every operation is a function of    *)
(* the table s and returns the table afterwards, the value returned and    *)
(* the exception raised ("" when the call returns).  fault is the number   *)
(* of the connection attempt of the call at which psycopg2.connect fails,  *)
(* 0 when every connection is established.                                 *)
(***************************************************************************)

Returns(s, value) == [store |-> s, result |-> value, raised |-> "", error |-> <<>>]

Raises(s, exception, message) ==
    [store |-> s, result |-> NoRecord, raised |-> exception, error |-> message]

\* DatabaseDriver.get_moving_request, on the connection numbered conn.
get_moving_request_on(s, request_id, fault, conn) ==
    IF fault = conn THEN Raises(s, "OperationalError", <<>>)
    ELSE IF request_id \notin DOMAIN s THEN Returns(s, NoRecord)
    ELSE Returns(s, s[request_id])

\* A get_moving_request that removes the row it read
DB_get_moving_request_consuming(s, request_id, fault) ==
    LET out == get_moving_request_on(s, request_id, fault, 1)
    IN  [out EXCEPT !.store = [i \in DOMAIN s \ {request_id} |-> s[i]]]

DB_get_moving_request(s, request_id, fault) ==
    get_moving_request_on(s, request_id, fault, 1)

\* An UPDATE that rewrites the table to the one row it was given
UpdateStatement_rewriting(s, request_id, f) ==
    (request_id :> MovingRequest(request_id, f))

\* The UPDATE statement: no row matched, a CHECK violated, or the row replaced.
UpdateStatement(s, request_id, f) ==
    [s EXCEPT ![request_id] = MovingRequest(request_id, f)]

\* update_moving_request inserting the row when no row matched
update_moving_request_on_upsert(s, request_id, f, fault, conn) ==
    IF fault = conn THEN Raises(s, "OperationalError", <<>>)
    ELSE IF ~TableChecks(MovingRequest(request_id, f))
         THEN Raises(s, "IntegrityError", <<>>)
    ELSE get_moving_request_on((request_id :> MovingRequest(request_id, f)) @@ s,
                               request_id, fault, conn + 1)

\* DatabaseDriver.update_moving_request, its own connection numbered conn and
\* the read-back of the record on the next one.
update_moving_request_on(s, request_id, f, fault, conn) ==
    IF fault = conn THEN Raises(s, "OperationalError", <<>>)
    ELSE IF request_id \notin DOMAIN s THEN Returns(s, NoRecord)
    ELSE IF ~TableChecks(MovingRequest(request_id, f))
         THEN Raises(s, "IntegrityError", <<>>)
    ELSE get_moving_request_on(UpdateStatement(s, request_id, f),
                               request_id, fault, conn + 1)

DB_update_moving_request(s, request_id, f, fault) ==
    update_moving_request_on(s, request_id, f, fault, 1)

\* The INSERT statement of create_moving_request.
InsertStatement(s, request_id, f) ==
    (request_id :> MovingRequest(request_id, f)) @@ s

\* create_moving_request without its input validation, the table's CHECKs
\* refusing the row instead
DB_create_moving_request_unvalidated(s, request_id, f, fault) ==
    IF fault = 1 THEN Raises(s, "OperationalError", <<>>)
    ELSE IF ~TableChecks(MovingRequest(request_id, f))
    THEN Raises(s, "ValueError", <<"Database integrity error: ">>)
    ELSE IF request_id \in DOMAIN s
    THEN update_moving_request_on(s, request_id, f, fault, 2)
    ELSE get_moving_request_on(InsertStatement(s, request_id, f), request_id, fault, 2)

\* create_moving_request rejecting an id that already has a row
DB_create_moving_request_strict(s, request_id, f, fault) ==
    IF lower(f.phone_type) \notin PhoneTypes
           \/ lower(f.from_building_type) \notin BuildingTypes
           \/ f.from_bedrooms <= 0
    THEN Raises(s, "ValueError", <<"Invalid ">>)
    ELSE IF fault = 1 THEN Raises(s, "OperationalError", <<>>)
    ELSE IF request_id \in DOMAIN s
    THEN Raises(s, "ValueError", <<"Database integrity error: ">>)
    ELSE get_moving_request_on(InsertStatement(s, request_id, f), request_id, fault, 2)

\* DatabaseDriver.create_moving_request
DB_create_moving_request(s, request_id, f, fault) ==
    IF lower(f.phone_type) \notin PhoneTypes
    THEN Raises(s, "ValueError",
                <<"Invalid phone_type: ">> \o f.phone_type
                    \o <<". Must be 'cell', 'home', or 'work'">>)
    ELSE IF lower(f.from_building_type) \notin BuildingTypes
    THEN Raises(s, "ValueError",
                <<"Invalid from_building_type: ">> \o f.from_building_type
                    \o <<". Must be 'house' or 'apartment'">>)
    ELSE IF f.from_bedrooms <= 0
    THEN Raises(s, "ValueError",
                <<"Invalid from_bedrooms: ">> \o str_int(f.from_bedrooms)
                    \o <<". Must be greater than 0">>)
    ELSE IF fault = 1 THEN Raises(s, "OperationalError", <<>>)
    ELSE LET out == IF request_id \in DOMAIN s
                    THEN update_moving_request_on(s, request_id, f, fault, 2)
                    ELSE get_moving_request_on(InsertStatement(s, request_id, f),
                                               request_id, fault, 2)
         IN  IF out.raised = "IntegrityError"
             THEN Raises(out.store, "ValueError", <<"Database integrity error: ">>)
             ELSE out

\* delete_moving_request reporting a removal whether or not a row matched
DB_delete_moving_request_always_true(s, request_id, fault) ==
    IF fault = 1 THEN Raises(s, "OperationalError", <<>>)
    ELSE [store  |-> [i \in DOMAIN s \ {request_id} |-> s[i]],
          result |-> TRUE,
          raised |-> "",
          error  |-> <<>>]

\* DatabaseDriver.delete_moving_request
DB_delete_moving_request(s, request_id, fault) ==
    IF fault = 1 THEN Raises(s, "OperationalError", <<>>)
    ELSE [store  |-> [i \in DOMAIN s \ {request_id} |-> s[i]],
          result |-> request_id \in DOMAIN s,
          raised |-> "",
          error  |-> <<>>]

\* list_all_requests with ORDER BY created_at, oldest first
DB_list_all_requests_ascending(s, c, fault) ==
    IF fault = 1 THEN Raises(s, "OperationalError", <<>>)
    ELSE Returns(s, [k \in 1..Len(c) |-> s[c[k]]])

\* DatabaseDriver.list_all_requests: SELECT * ... ORDER BY created_at DESC,
\* where c holds the ids of the rows from the oldest created_at to the newest.
DB_list_all_requests(s, c, fault) ==
    IF fault = 1 THEN Raises(s, "OperationalError", <<>>)
    ELSE Returns(s, [k \in 1..Len(c) |-> s[c[Len(c) + 1 - k]]])

(***************************************************************************)
(* AssistantFnc (src/api.py)                                               *)
(***************************************************************************)

YesNo(b) == IF b THEN <<"Yes">> ELSE <<"No">>

\* get_moving_request_str printing the car details of every record that has them
get_moving_request_str_car_always(s, request_id, fault) ==
    LET got == DB_get_moving_request(s, request_id, fault)
        result == got.result
    IN  IF got.raised # ""
        THEN <<"I encountered an error retrieving your moving request details. Please try again.">>
        ELSE IF result = NoRecord
        THEN <<"Moving request not found. Please check your request ID and try again.">>
        ELSE <<"Here are your moving request details:\n">>
             \o <<"Request ID: ">> \o result.request_id \o <<"\n">>
             \o <<"Customer Name: ">> \o result.customer_name \o <<"\n">>
             \o <<"Email: ">> \o result.email \o <<"\n">>
             \o <<"Phone number: ">> \o result.phone_number \o <<"\n">>
             \o <<"From Address: ">> \o result.from_address \o <<"\n">>
             \o <<"Number of Bedrooms: ">> \o str_int(result.from_bedrooms) \o <<"\n">>
             \o <<"To Address: ">> \o result.to_address \o <<"\n">>
             \o <<"Move Date: ">> \o result.move_date \o <<"\n">>
             \o <<"Flexible Date: ">> \o YesNo(result.flexible_date) \o <<"\n">>
             \o <<"Car Transport: ">> \o YesNo(result.assist_car) \o <<"\n">>
             \o (IF /\ Truthy(result.car_year)
                    /\ Truthy(result.car_make)
                    /\ Truthy(result.car_model)
                 THEN <<"Car Details: ">> \o result.car_year \o <<" ">>
                      \o result.car_make \o <<" ">> \o result.car_model \o <<"\n">>
                 ELSE <<>>)
             \o <<"\nWould you like to make any changes to these details?">>

\* AssistantFnc.get_moving_request_str
get_moving_request_str(s, request_id, fault) ==
    LET got == DB_get_moving_request(s, request_id, fault)
        result == got.result
    IN  IF got.raised # ""
        THEN <<"I encountered an error retrieving your moving request details. Please try again.">>
        ELSE IF result = NoRecord
        THEN <<"Moving request not found. Please check your request ID and try again.">>
        ELSE <<"Here are your moving request details:\n">>
             \o <<"Request ID: ">> \o result.request_id \o <<"\n">>
             \o <<"Customer Name: ">> \o result.customer_name \o <<"\n">>
             \o <<"Email: ">> \o result.email \o <<"\n">>
             \o <<"Phone number: ">> \o result.phone_number \o <<"\n">>
             \o <<"From Address: ">> \o result.from_address \o <<"\n">>
             \o <<"Number of Bedrooms: ">> \o str_int(result.from_bedrooms) \o <<"\n">>
             \o <<"To Address: ">> \o result.to_address \o <<"\n">>
             \o <<"Move Date: ">> \o result.move_date \o <<"\n">>
             \o <<"Flexible Date: ">> \o YesNo(result.flexible_date) \o <<"\n">>
             \o <<"Car Transport: ">> \o YesNo(result.assist_car) \o <<"\n">>
             \o (IF /\ result.assist_car
                    /\ Truthy(result.car_year)
                    /\ Truthy(result.car_make)
                    /\ Truthy(result.car_model)
                 THEN <<"Car Details: ">> \o result.car_year \o <<" ">>
                      \o result.car_make \o <<" ">> \o result.car_model \o <<"\n">>
                 ELSE <<>>)
             \o <<"\nWould you like to make any changes to these details?">>

\* AssistantFnc.lookup_moving_request
lookup_moving_request(s, request_id, fault) ==
    <<"The moving request details are: ">> \o get_moving_request_str(s, request_id, fault)

\* AssistantFnc.get_moving_request_details
get_moving_request_details(s, request_id, fault) ==
    <<"The moving request details are: ">> \o get_moving_request_str(s, request_id, fault)

\* AssistantFnc.get_additional_details
get_additional_details(s, request_id, field, fault) ==
    LET got == DB_get_moving_request(s, request_id, fault)
        result == got.result
        field_lower == lower(field)
    IN  IF got.raised # ""
        THEN <<"I encountered an error retrieving the additional details. Please try again.">>
        ELSE IF result = NoRecord THEN <<"Moving request not found">>
        ELSE IF field_lower = <<"p", "h", "o", "n", "e", "_", "t", "y", "p", "e">>
        THEN <<"Phone type: ">> \o result.phone_type
        ELSE IF field_lower = <<"b", "u", "i", "l", "d", "i", "n", "g", "_", "t", "y", "p", "e">>
        THEN <<"Building Type: ">> \o result.from_building_type
        ELSE IF field_lower = <<"c", "a", "r", "_", "d", "e", "t", "a", "i", "l", "s">> /\ result.assist_car
        THEN IF Truthy(result.car_year) /\ Truthy(result.car_make) /\ Truthy(result.car_model)
             THEN <<"Car Year: ">> \o result.car_year \o <<"\nCar Make: ">> \o result.car_make
                      \o <<"\nCar Model: ">> \o result.car_model
             ELSE <<"Car transport is needed but car details are incomplete.">>
        ELSE IF field_lower = <<"c", "a", "r", "_", "d", "e", "t", "a", "i", "l", "s">>
        THEN <<"Car transport is not needed for this request.">>
        ELSE <<"Field '">> \o field \o <<"' not found or not available.">>

\* The eight fields has_moving_request requires of a record.
required_fields(result) ==
    <<result.customer_name, result.email, result.phone_number, result.phone_type,
      result.from_address, result.from_building_type, result.to_address,
      result.move_date>>

\* has_moving_request requiring the car details whatever assist_car says
has_moving_request_car_always(s, request_id, fault) ==
    LET got == DB_get_moving_request(s, request_id, fault)
        result == got.result
    IN  IF got.raised # "" THEN FALSE
        ELSE IF result = NoRecord THEN FALSE
        ELSE LET fields == required_fields(result)
             IN  /\ \A i \in 1..Len(fields) : Truthy(fields[i]) /\ Truthy(strip(fields[i]))
                 /\ result.from_bedrooms > 0
                 /\ Truthy(result.car_year)
                 /\ Truthy(result.car_make)
                 /\ Truthy(result.car_model)

\* AssistantFnc.has_moving_request
has_moving_request(s, request_id, fault) ==
    LET got == DB_get_moving_request(s, request_id, fault)
        result == got.result
    IN  IF got.raised # "" THEN FALSE
        ELSE IF result = NoRecord THEN FALSE
        ELSE LET fields == required_fields(result)
                 has_required == \A i \in 1..Len(fields) :
                                     Truthy(fields[i]) /\ Truthy(strip(fields[i]))
                 has_bedrooms == result.from_bedrooms # 0 /\ result.from_bedrooms > 0
                 has_car_details ==
                     IF result.assist_car
                     THEN /\ Truthy(result.car_year)
                          /\ Truthy(result.car_make)
                          /\ Truthy(result.car_model)
                     ELSE TRUE
             IN  has_required /\ has_bedrooms /\ has_car_details

\* The checks both callables make before they reach the store; "" when the
\* arguments pass.
\* The argument checks of the callables without the enumeration checks
ArgumentError_car_only(f) ==
    IF f.assist_car /\ (~Truthy(f.car_year) \/ ~Truthy(f.car_make) \/ ~Truthy(f.car_model))
    THEN <<"Car transportation details are incomplete. Please provide the car year, make, and model.">>
    ELSE <<>>

\* The argument checks both callables run before they call the store: the
\* text they return, empty when the arguments pass.
ArgumentError(f) ==
    IF f.assist_car /\ (~Truthy(f.car_year) \/ ~Truthy(f.car_make) \/ ~Truthy(f.car_model))
    THEN <<"Car transportation details are incomplete. Please provide the car year, make, and model.">>
    ELSE IF strip(lower(f.phone_type)) \notin PhoneTypes
    THEN <<"Invalid phone type '">> \o strip(lower(f.phone_type))
         \o <<"'. Please specify 'cell', 'home', or 'work'.">>
    ELSE IF strip(lower(f.from_building_type)) \notin BuildingTypes
    THEN <<"Invalid building type '">> \o strip(lower(f.from_building_type))
         \o <<"'. Please specify 'house' or 'apartment'.">>
    ELSE <<>>

\* phone_type.lower().strip() and from_building_type.lower().strip()
NormalizeInputs(f) ==
    [f EXCEPT !.phone_type = strip(lower(f.phone_type)),
              !.from_building_type = strip(lower(f.from_building_type))]

\* AssistantFnc.create_moving_request: the table afterwards and the text returned.
Fnc_create_moving_request(s, request_id, f, fault) ==
    IF ArgumentError(f) # <<>>
    THEN [store |-> s, result |-> ArgumentError(f), store_calls |-> <<>>]
    ELSE LET out == DB_create_moving_request(s, request_id, NormalizeInputs(f), fault)
         IN  [store  |-> out.store,
              store_calls |-> <<"DB.create_moving_request">>,
              result |->
                 IF out.raised = "ValueError"
                 THEN <<"Error creating request: ">> \o out.error
                 ELSE IF out.raised # ""
                 THEN <<"I encountered an error creating your moving request. Please try again.">>
                 ELSE IF out.result = NoRecord
                 THEN <<"Failed to create moving request. Please try again.">>
                 ELSE <<"Moving request created! Your request ID is: ">> \o request_id
                      \o <<". Please save this ID for future reference.">>]

\* AssistantFnc.update_moving_request
Fnc_update_moving_request(s, request_id, f, fault) ==
    IF ArgumentError(f) # <<>>
    THEN [store |-> s, result |-> ArgumentError(f), store_calls |-> <<>>]
    ELSE LET out == DB_update_moving_request(s, request_id, NormalizeInputs(f), fault)
         IN  [store  |-> out.store,
              store_calls |-> <<"DB.update_moving_request">>,
              result |->
                 IF out.raised = "ValueError"
                 THEN <<"Error updating request: ">> \o out.error
                 ELSE IF out.raised # ""
                 THEN <<"I encountered an error updating your moving request. Please try again.">>
                 ELSE IF out.result = NoRecord
                 THEN <<"Moving request with ID ">> \o request_id
                      \o <<" not found or failed to update.">>
                 ELSE <<"Moving request ">> \o request_id
                      \o <<" has been updated successfully!">>]

(***************************************************************************)
(* The utterance router (src/agent.py).  A turn is the handling of one     *)
(* user_speech_committed event.  calls is the log of the calls the router  *)
(* made on the conversation session in that turn, in order; the k-th call  *)
(* raises when sf[k] holds.  reads is the list of ids with which the       *)
(* router read the store.                                                  *)
(***************************************************************************)

keywords ==
    << <<"c", "h", "e", "c", "k">>,
       <<"l", "o", "o", "k", " ", "u", "p">>,
       <<"m", "y", " ", "d", "e", "t", "a", "i", "l", "s">>,
       <<"r", "e", "q", "u", "e", "s", "t", " ", "i", "d">>,
       <<"l", "o", "o", "k", "u", "p">> >>

\* The ten numbered items of the LOOKUP_MOVING_INFO prompt.
CollectionItems ==
    <<"1. Customer name",
      "2. Email address",
      "3. Phone number and type (cell, home, or work)",
      "4. Current address and building type (house or apartment)",
      "5. Number of bedrooms",
      "6. Destination address",
      "7. Preferred move date",
      "8. Whether the move date is flexible",
      "9. Whether they need car transportation",
      "10. If yes to car transport, collect car details (year, make, model)">>

\* LOOKUP_MOVING_INFO listing only the text items the session's record lacks
LOOKUP_MOVING_INFO_missing_only(content) ==
    LET field == (1 :> "customer_name") @@ (2 :> "email") @@ (3 :> "phone_number")
                     @@ (4 :> "from_address") @@ (6 :> "to_address") @@ (7 :> "move_date")
        needed(k) == \/ k \notin DOMAIN field
                     \/ current_request_id \notin DOMAIN store
                     \/ store[current_request_id][field[k]] = <<>>
    IN  <<"If the user has provided their moving information, attempt to look it up in the database. ... collect the following information one by one and store each piece directly in the database:">>
        \o SelectSeq(CollectionItems,
                     LAMBDA item : \E k \in 1..Len(CollectionItems) :
                                       CollectionItems[k] = item /\ needed(k))
        \o <<"Important guidelines: ... If any information is unclear, ask for clarification.">>
        \o <<"Here is the user's message: ">> \o content

\* prompts.LOOKUP_MOVING_INFO(msg)
LOOKUP_MOVING_INFO(content) ==
    <<"If the user has provided their moving information, attempt to look it up in the database. ... collect the following information one by one and store each piece directly in the database:">>
    \o CollectionItems
    \o <<"Important guidelines: ... If any information is unclear, ask for clarification.">>
    \o <<"Here is the user's message: ">> \o content

image_placeholder == <<"[", "i", "m", "a", "g", "e", "]">>

RECURSIVE join_parts(_)
\* "\n".join("[image]" if isinstance(x, llm.ChatImage) else str(x) for x in parts)
join_parts(parts) ==
    IF parts = <<>> THEN <<>>
    ELSE LET x == IF Head(parts).image THEN image_placeholder ELSE Head(parts).text
         IN  IF Len(parts) = 1 THEN x ELSE x \o <<"\n">> \o join_parts(Tail(parts))

\* msg.content once flattened to a string.
flatten(msg) == IF msg.is_list THEN join_parts(msg.parts) ELSE msg.text

\* A list element whose str() raises.
Unprintable == <<"<unprintable>">>

\* The flattening of msg.content raises.
flatten_raises(msg) ==
    msg.is_list /\ \E k \in 1..Len(msg.parts) :
                       ~msg.parts[k].image /\ msg.parts[k].text = Unprintable

Raised(sf, k) == k \in DOMAIN sf /\ sf[k]

\* session.conversation.item.create(llm.ChatMessage(role, content))
item_create(calls, role, content, sf) ==
    Append(calls, [op |-> "item.create", role |-> role, content |-> content,
                   ok |-> ~Raised(sf, Len(calls) + 1)])

\* session.response.create()
response_create(calls, sf) ==
    Append(calls, [op |-> "response.create", role |-> "", content |-> <<>>,
                   ok |-> ~Raised(sf, Len(calls) + 1)])

LastOk(calls) == calls[Len(calls)].ok

\* An exception leaving a function, as the last entry of the call log it
\* hands back.
raise_marker == [op |-> "raise", role |-> "", content |-> <<>>, ok |-> FALSE]

Propagates(calls) == calls # <<>> /\ calls[Len(calls)].op = "raise"

\* The call log once an except clause has caught the exception.
Caught(calls) == IF Propagates(calls) THEN SubSeq(calls, 1, Len(calls) - 1) ELSE calls

\* send_error_response without its try / except
send_error_response_unguarded(calls, message, sf) ==
    LET c1 == item_create(calls, "system", message, sf)
        c2 == response_create(c1, sf)
    IN  IF ~LastOk(c1) THEN Append(c1, raise_marker)
        ELSE IF ~LastOk(c2) THEN Append(c2, raise_marker)
        ELSE c2

\* send_error_response without its session.response.create()
send_error_response_silent(calls, message, sf) ==
    item_create(calls, "system", message, sf)

\* send_error_response
send_error_response(calls, message, sf) ==
    LET c1 == item_create(calls, "system", message, sf)
    IN  IF ~LastOk(c1) THEN c1 ELSE response_create(c1, sf)

\* The handlers' try body requesting the response before it appends the message
emit_then_respond_response_first(calls, role, content, apology, sf) ==
    LET c1 == response_create(calls, sf)
        c2 == item_create(c1, role, content, sf)
    IN  IF ~LastOk(c1) THEN send_error_response(c1, apology, sf)
        ELSE IF ~LastOk(c2) THEN send_error_response(c2, apology, sf)
        ELSE c2

\* The try body shared by the three handlers: append one message, request a
\* response; on a raise of either, send_error_response(apology).
emit_then_respond(calls, role, content, apology, sf) ==
    LET c1 == item_create(calls, role, content, sf)
        c2 == response_create(c1, sf)
    IN  IF ~LastOk(c1) THEN send_error_response(c1, apology, sf)
        ELSE IF ~LastOk(c2) THEN send_error_response(c2, apology, sf)
        ELSE c2

id_prompt ==
    <<"I'll need your request ID to look up your details. Could you please provide your 6-digit request ID?">>

lookup_apology ==
    <<"I encountered an error processing your lookup request. Please try again.">>

\* handle_lookup_request falling back to the session's id when the utterance
\* holds no token
handle_lookup_request_guess(s, content, sf, fault) ==
    LET found == request_id_match(content)
        request_id == IF found # None THEN found ELSE current_request_id
        result == lookup_moving_request(s, request_id, fault)
    IN  [reads |-> <<request_id>>,
         calls |-> emit_then_respond(<<>>, "system",
                       <<"Looking up request ID: ">> \o request_id \o <<"\n">> \o result,
                       lookup_apology, sf)]

\* handle_lookup_request
handle_lookup_request(s, content, sf, fault) ==
    LET request_id == request_id_match(content)
    IN  IF request_id # None
        THEN LET result == lookup_moving_request(s, request_id, fault)
                 c1 == item_create(<<>>, "system",
                                   <<"Looking up request ID: ">> \o request_id
                                       \o <<"\n">> \o result, sf)
                 c2 == IF LastOk(c1) THEN c1
                       ELSE item_create(c1, "system",
                                <<"I encountered an error looking up your request. Please verify your request ID and try again.">>,
                                sf)
                 c3 == response_create(c2, sf)
             IN  [reads |-> <<request_id>>,
                  calls |-> IF ~LastOk(c2) THEN send_error_response(c2, lookup_apology, sf)
                            ELSE IF ~LastOk(c3) THEN send_error_response(c3, lookup_apology, sf)
                            ELSE c3]
        ELSE [reads |-> <<>>,
              calls |-> emit_then_respond(<<>>, "system", id_prompt, lookup_apology, sf)]

collect_apology ==
    <<"I apologize, but I encountered an error while processing your information. Could you please repeat that?">>

\* collect_moving_info appending the instruction with role user
collect_moving_info_as_user(content, sf) ==
    emit_then_respond(<<>>, "user", LOOKUP_MOVING_INFO(content), collect_apology, sf)

\* collect_moving_info
collect_moving_info(content, sf) ==
    emit_then_respond(<<>>, "system", LOOKUP_MOVING_INFO(content), collect_apology, sf)

query_apology ==
    <<"I apologize, but I encountered an error processing your query. Could you please try again?">>

\* handle_query wrapping the utterance in a lead-in
handle_query_wrapped(content, sf) ==
    emit_then_respond(<<>>, "user", <<"The user asks: ">> \o content, query_apology, sf)

\* handle_query
handle_query(content, sf) ==
    emit_then_respond(<<>>, "user", content, query_apology, sf)

\* any(keyword in content_lower for keyword in [...])
is_lookup(content) ==
    \E k \in 1..Len(keywords) : Contains(keywords[k], lower(content))

\* on_user_speech_committed testing completeness before the lookup triggers
on_user_speech_committed_query_first(s, request_id, msg, sf, fault) ==
    LET content == flatten(msg)
    IN  IF has_moving_request(s, request_id, fault)
        THEN [content  |-> content,
              handlers |-> <<"handle_query">>,
              reads    |-> <<request_id>>,
              store_failed |-> fault = 1,
              calls    |-> handle_query(content, sf)]
        ELSE IF is_lookup(content)
        THEN LET h == handle_lookup_request(s, content, sf, fault)
             IN  [content  |-> content,
                  handlers |-> <<"handle_lookup_request">>,
                  reads    |-> h.reads,
                  store_failed |-> fault = 1 /\ h.reads # <<>>,
                  calls    |-> h.calls]
        ELSE [content  |-> content,
              handlers |-> <<"collect_moving_info">>,
              reads    |-> <<request_id>>,
              store_failed |-> fault = 1,
              calls    |-> collect_moving_info(content, sf)]

error_apology ==
    <<"I apologize, but I encountered an error processing your request. Could you please try again?">>

\* The try body of on_user_speech_committed once msg.content is a string.
route(s, request_id, content, sf, fault) ==
    IF is_lookup(content)
    THEN LET h == handle_lookup_request(s, content, sf, fault)
         IN  [content  |-> content,
              handlers |-> <<"handle_lookup_request">>,
              reads    |-> h.reads,
              store_failed |-> fault = 1 /\ h.reads # <<>>,
              calls    |-> h.calls]
    ELSE IF has_moving_request(s, request_id, fault)
    THEN [content  |-> content,
          handlers |-> <<"handle_query">>,
          reads    |-> <<request_id>>,
          store_failed |-> fault = 1,
          calls    |-> handle_query(content, sf)]
    ELSE [content  |-> content,
          handlers |-> <<"collect_moving_info">>,
          reads    |-> <<request_id>>,
          store_failed |-> fault = 1,
          calls    |-> collect_moving_info(content, sf)]

\* on_user_speech_committed: the handler that ran, the store reads and the
\* session calls of the turn.  Its except clause catches what the flattening
\* or a handler raises and sends the error response.
on_user_speech_committed(s, request_id, msg, sf, fault) ==
    IF flatten_raises(msg)
    THEN [content  |-> <<>>,
          handlers |-> <<"send_error_response">>,
          reads    |-> <<>>,
          store_failed |-> FALSE,
          calls    |-> send_error_response(<<>>, error_apology, sf)]
    ELSE LET r == route(s, request_id, flatten(msg), sf, fault)
         IN  IF Propagates(r.calls)
             THEN [r EXCEPT !.handlers = Append(@, "send_error_response"),
                            !.calls = send_error_response(Caught(r.calls),
                                                          error_apology, sf)]
             ELSE r

(***************************************************************************)
(* Inputs                                                                  *)
(***************************************************************************)

IdA == <<"4", "8", "2", "9", "1", "3">>
IdB == <<"1", "2", "3", "4", "5", "6">>

\* The numbers random.randint(100000, 999999) yields in the model.
RandomDraws == {482913, 123456}

\* generate_request_id drawing from a range one digit short
generate_request_id_five_digits(n) == str_int(n \div 10)

\* generate_request_id: str(random.randint(100000, 999999)), n being the draw.
generate_request_id(n) == str_int(n)

\* The request ids of the model: generate_request_id draws one of them.
Ids == {generate_request_id(n) : n \in RandomDraws}

\* The largest bedroom count passed to create / update.
MaxBedrooms == 2

\* A complete field set without car transport.
BaseFields ==
    [customer_name      |-> <<"A", "l">>,
     email              |-> <<"a", "@", "b">>,
     phone_number       |-> <<"5", "5", "5">>,
     phone_type         |-> cell,
     from_address       |-> <<"1", " ", "S", "t">>,
     from_building_type |-> house,
     from_bedrooms      |-> 1,
     to_address         |-> <<"2", " ", "A", "v">>,
     move_date          |-> <<"M", "a", "y">>,
     flexible_date      |-> FALSE,
     assist_car         |-> FALSE,
     car_year           |-> None,
     car_make           |-> None,
     car_model          |-> None]

Car(year, make, model) ==
    [BaseFields EXCEPT !.assist_car = TRUE, !.car_year = year,
                       !.car_make = make, !.car_model = model]

\* Field sets with car transport: complete, and each way of being incomplete.
CarFieldSets ==
    {Car(<<"9", "9">>, <<"V", "W">>, <<"G">>),
     Car(None, None, None),
     Car(<<>>, <<"V", "W">>, <<"G">>),
     Car(<<"9", "9">>, None, <<"G">>),
     Car(<<"9", "9">>, <<"V", "W">>, <<>>),
     [BaseFields EXCEPT !.car_year = <<"9", "9">>, !.car_make = <<"V", "W">>,
                        !.car_model = <<"G">>]}

\* BaseFields with one text field empty, blank or padded with whitespace.
TextFieldSets ==
    {[BaseFields EXCEPT !.customer_name = <<>>],
     [BaseFields EXCEPT !.customer_name = <<" ", "A", "l", " ">>],
     [BaseFields EXCEPT !.email = <<" ">>],
     [BaseFields EXCEPT !.email = <<"a", "@", "b", "\n">>],
     [BaseFields EXCEPT !.phone_number = <<>>],
     [BaseFields EXCEPT !.from_address = <<>>],
     [BaseFields EXCEPT !.from_address = <<"\t", "1", " ", "S", "t">>],
     [BaseFields EXCEPT !.to_address = <<" ", " ">>],
     [BaseFields EXCEPT !.move_date = <<>>],
     [BaseFields EXCEPT !.move_date = <<"M", "a", "y", " ">>]}

\* BaseFields with another enumerated value, in some letter case, or a value
\* outside the enumeration.
EnumFieldSets ==
    {[BaseFields EXCEPT !.phone_type = <<"H", "o", "m", "e">>],
     [BaseFields EXCEPT !.phone_type = <<"W", "O", "R", "K">>],
     [BaseFields EXCEPT !.phone_type = <<"f", "a", "x">>],
     [BaseFields EXCEPT !.phone_type = <<" ", "c", "e", "l", "l">>],
     [BaseFields EXCEPT !.from_building_type = <<"A", "p", "a", "r", "t", "m", "e", "n", "t">>],
     [BaseFields EXCEPT !.from_building_type = <<"c", "o", "n", "d", "o">>]}

BedroomFieldSets ==
    {[BaseFields EXCEPT !.from_bedrooms = n] : n \in -1..MaxBedrooms}

\* The field sets passed to the store's create and update.
FieldSets ==
    {BaseFields, [BaseFields EXCEPT !.flexible_date = TRUE]}
        \cup CarFieldSets \cup TextFieldSets \cup EnumFieldSets \cup BedroomFieldSets

\* The field sets written under the ids of other sessions.
OtherFieldSets == {BaseFields, Car(<<"9", "9">>, <<"V", "W">>, <<"G">>)}

EmptyStore == [i \in {} |-> NoRecord]

\* The field sets the model passes to the assistant's callables.
CallableFieldSets ==
    {BaseFields,
     Car(<<"9", "9">>, <<"V", "W">>, <<"G">>),
     Car(<<"9", "9">>, None, <<"G">>),
     [BaseFields EXCEPT !.customer_name = <<>>],
     [BaseFields EXCEPT !.phone_type = <<" ", "C", "e", "l", "l">>],
     [BaseFields EXCEPT !.from_building_type = <<"c", "o", "n", "d", "o">>],
     [BaseFields EXCEPT !.phone_type = <<"F", "a", "x", " ">>],
     [BaseFields EXCEPT !.phone_type = <<"f", "a", "x">>, !.assist_car = TRUE],
     [BaseFields EXCEPT !.from_bedrooms = 0]}

\* Rows other writers of the table left behind before the session started.
SeedFieldSets == {BaseFields, Car(<<"9", "9">>, None, <<"G">>)}

InitialStores ==
    {EmptyStore}
        \cup {DB_create_moving_request(EmptyStore, i, f, 0).store :
                 i \in Ids, f \in SeedFieldSets}

Text(s) == [is_list |-> FALSE, text |-> s, parts |-> <<>>]

Phrases ==
    {<<>>,
     <<"c", "h", "e", "c", "k">>,
     <<"L", "o", "o", "k", " ", "U", "p">>,
     <<"l", "o", "o", "k", "u", "p">>,
     <<"m", "y", " ", "d", "e", "t", "a", "i", "l", "s">>,
     <<"R", "e", "q", "u", "e", "s", "t", " ", "I", "D">>,
     <<"c", "h", "e", "k">>,
     <<"h", "e", "l", "l", "o">>}

Tails ==
    {<<>>,
     <<" ", "4", "8", "2", "9", "1", "3">>,
     <<" ", "1", "2", "3", "4", "5", "6", " ", "4", "8", "2", "9", "1", "3">>,
     <<" ", "1", "2", "3", "4", "5">>,
     <<" ", "4", "8", "2", "9", "1", "3", "0">>,
     <<" ", "x", "4", "8", "2", "9", "1", "3">>,
     <<" ", "4", "8", "2", "9", "1", "3", ".">>,
     <<" ", "9", "9", "9", "9", "9", "9">>}

\* The user_speech_committed events of the model: a phrase followed by a tail,
\* the utterances the specification names, and two list contents.
Messages ==
    {Text(p \o t) : p \in Phrases, t \in Tails}
        \cup {Text(<<"c", "a", "n", " ", "y", "o", "u", " ", "c", "h", "e", "c", "k", " ", "m", "y", " ", "d", "e", "t", "a", "i", "l", "s", ",", " ", "r", "e", "q", "u", "e", "s", "t", " ", "i", "d", " ", "i", "s", " ", "4", "8", "2", "9", "1", "3">>),
              Text(<<"c", "h", "e", "c", "k", " ", "m", "y", " ", "d", "e", "t", "a", "i", "l", "s">>),
              Text(<<"w", "h", "a", "t", "'", "s", " ", "y", "o", "u", "r", " ", "r", "e", "f", "u", "n", "d", " ", "p", "o", "l", "i", "c", "y">>),
              [is_list |-> TRUE, text |-> <<>>,
               parts |-> <<[image |-> TRUE, text |-> <<>>],
                           [image |-> FALSE, text |-> <<"h", "i">>]>>],
              [is_list |-> TRUE, text |-> <<>>,
               parts |-> <<[image |-> FALSE, text |-> <<"l", "o", "o", "k">>],
                           [image |-> FALSE, text |-> <<"u", "p", " ", "1", "2", "3", "4", "5", "6">>]>>]}

\* No call on the conversation session raises.
NoSessionFault == <<>>

(***************************************************************************)
(* State machine                                                           *)
(***************************************************************************)

NoTurn ==
    [content |-> <<>>, handlers |-> <<>>, reads |-> <<>>, store_failed |-> FALSE,
     calls |-> <<>>]

NoCall == [op |-> "none"]

\* The orders in which the rows with the ids of S can have been inserted.
Orders(S) ==
    {q \in [1..Cardinality(S) -> S] : \A i, j \in 1..Cardinality(S) : q[i] = q[j] => i = j}

\* created_at TIMESTAMP DEFAULT CURRENT_TIMESTAMP, kept as the ids of the rows
\* from the oldest created_at to the newest: an INSERT stamps the new row with
\* the current time, an UPDATE leaves the column alone, a DELETE removes the
\* row with its stamp.
CreatedAfter(c, s) ==
    LET kept == SelectSeq(c, LAMBDA i : i \in DOMAIN s)
        new  == DOMAIN s \ {c[k] : k \in DOMAIN c}
    IN  IF new = {} THEN kept ELSE Append(kept, CHOOSE i \in new : TRUE)

\* A session that is not inside a store call of its own.
NoTxn == [pc |-> "idle", request_id |-> <<>>, fields |-> BaseFields, raised |-> ""]

\* No store operation is running and no connection is open.
NoConns ==
    [open |-> {}, stack |-> <<>>, op |-> "none", before |-> 0, opened |-> 0,
     outcome |-> "none", store_before |-> EmptyStore]

\* The table after a call is s; the statement-level view of the table is not
\* in use.
Write(s) ==
    /\ store' = s
    /\ created' = CreatedAfter(created, s)
    /\ UNCHANGED <<rows, txn, conns>>

\* AssistantFnc.__init__ against a table that may already hold rows.
Init ==
    /\ store \in InitialStores
    /\ current_request_id \in Ids
    /\ turn = NoTurn
    /\ call = NoCall
    /\ created \in Orders(DOMAIN store)
    /\ rows = <<>>
    /\ txn = [s \in {} |-> NoTxn]
    /\ conns = NoConns

\* The table after the store reads of a turn: has_moving_request and
\* lookup_moving_request each call DatabaseDriver.get_moving_request once
\* with the id they read.
RECURSIVE StoreAfterReads(_, _, _)
StoreAfterReads(s, reads, fault) ==
    IF reads = <<>> THEN s
    ELSE StoreAfterReads(DB_get_moving_request(s, Head(reads), fault).store,
                         Tail(reads), fault)

\* One user_speech_committed event, handled to the end.
UserSpeechCommitted(msgs, sfs, faults) ==
    \E msg \in msgs, sf \in sfs, fault \in faults :
        /\ turn' = on_user_speech_committed(store, current_request_id, msg, sf, fault)
        /\ call' = NoCall
        /\ Write(StoreAfterReads(store, turn'.reads, fault))
        /\ UNCHANGED current_request_id

\* The model invokes the create_moving_request callable.
CreateMovingRequest(fieldsets, faults) ==
    \E f \in fieldsets, fault \in faults :
        LET out == Fnc_create_moving_request(store, current_request_id, f, fault)
        IN  /\ Write(out.store)
            /\ call' = [op |-> "create_moving_request", request_id |-> current_request_id,
                        fields |-> f, result |-> out.result, raised |-> "",
                        store_calls |-> out.store_calls]
            /\ turn' = NoTurn
            /\ UNCHANGED current_request_id

\* The model invokes the update_moving_request callable.
UpdateMovingRequest(fieldsets, faults) ==
    \E i \in Ids, f \in fieldsets, fault \in faults :
        LET out == Fnc_update_moving_request(store, i, f, fault)
        IN  /\ Write(out.store)
            /\ call' = [op |-> "update_moving_request", request_id |-> i,
                        fields |-> f, result |-> out.result, raised |-> "",
                        store_calls |-> out.store_calls]
            /\ turn' = NoTurn
            /\ UNCHANGED current_request_id

\* The field names the model passes to get_additional_details.
DetailFields ==
    {<<"p", "h", "o", "n", "e", "_", "t", "y", "p", "e">>,
     <<"B", "u", "i", "l", "d", "i", "n", "g", "_", "T", "y", "p", "e">>,
     <<"c", "a", "r", "_", "d", "e", "t", "a", "i", "l", "s">>,
     <<"e", "m", "a", "i", "l">>}

ReadCall(op, request_id, field, result) ==
    /\ call' = [op |-> op, request_id |-> request_id, field |-> field, result |-> result]
    /\ turn' = NoTurn
    /\ UNCHANGED <<store, current_request_id, created, rows, txn, conns>>

\* The model invokes the lookup_moving_request callable.
LookupMovingRequest(faults) ==
    \E i \in Ids, fault \in faults :
        ReadCall("lookup_moving_request", i, <<>>, lookup_moving_request(store, i, fault))

\* The model invokes the get_moving_request_details callable.
GetMovingRequestDetails(faults) ==
    \E fault \in faults :
        ReadCall("get_moving_request_details", current_request_id, <<>>,
                 get_moving_request_details(store, current_request_id, fault))

\* The model invokes the get_additional_details callable.
GetAdditionalDetails(faults) ==
    \E i \in Ids, field \in DetailFields, fault \in faults :
        ReadCall("get_additional_details", i, field,
                 get_additional_details(store, i, field, fault))

\* The session with a reliable store and a reliable conversation session.
Next ==
    \/ UserSpeechCommitted(Messages, {NoSessionFault}, {0})
    \/ CreateMovingRequest(CallableFieldSets, {0})
    \/ UpdateMovingRequest(CallableFieldSets, {0})
    \/ LookupMovingRequest({0})
    \/ GetMovingRequestDetails({0})
    \/ GetAdditionalDetails({0})

Spec == Init /\ [][Next]_vars

(***************************************************************************)
(* The store on its own: the DatabaseDriver operations, called directly    *)
(***************************************************************************)

InitStore ==
    /\ store = EmptyStore
    /\ current_request_id \in Ids
    /\ turn = NoTurn
    /\ call = NoCall
    /\ created = <<>>
    /\ rows = <<>>
    /\ txn = [s \in {} |-> NoTxn]
    /\ conns = NoConns

\* The session's own id is written with every field set, the other ids with a few.
WriteFieldSets(request_id, session_id) ==
    IF request_id = session_id THEN FieldSets ELSE OtherFieldSets

StoreCall(op, request_id, f, out) ==
    /\ Write(out.store)
    /\ call' = [op |-> op, request_id |-> request_id, fields |-> f,
                existed |-> request_id \in DOMAIN store,
                result |-> out.result, raised |-> out.raised, error |-> out.error]
    /\ turn' = NoTurn
    /\ UNCHANGED current_request_id

DbCreate(faults) ==
    \E i \in Ids : \E f \in WriteFieldSets(i, current_request_id), fault \in faults :
        StoreCall("DB.create_moving_request", i, f,
                  DB_create_moving_request(store, i, f, fault))

DbUpdate(faults) ==
    \E i \in Ids : \E f \in WriteFieldSets(i, current_request_id), fault \in faults :
        StoreCall("DB.update_moving_request", i, f,
                  DB_update_moving_request(store, i, f, fault))

DbGet(faults) ==
    \E i \in Ids, fault \in faults :
        StoreCall("DB.get_moving_request", i, BaseFields,
                  DB_get_moving_request(store, i, fault))

\* A delete reports a boolean, not a row, and takes no field values.
DbDelete(faults) ==
    \E i \in Ids, fault \in faults :
        LET out == DB_delete_moving_request(store, i, fault)
        IN  /\ Write(out.store)
            /\ call' = [op |-> "DB.delete_moving_request", request_id |-> i,
                        result |-> out.result, raised |-> out.raised]
            /\ turn' = NoTurn
            /\ UNCHANGED current_request_id

\* The session asks whether its record is complete.
HasMovingRequest(faults) ==
    \E fault \in faults :
        /\ call' = [op |-> "has_moving_request", request_id |-> current_request_id,
                    result |-> has_moving_request(store, current_request_id, fault)]
        /\ turn' = NoTurn
        /\ UNCHANGED <<store, current_request_id, created, rows, txn, conns>>

\* The dashboard's listing of the table.
DbList(faults) ==
    \E fault \in faults :
        LET out == DB_list_all_requests(store, created, fault)
        IN  /\ call' = [op |-> "DB.list_all_requests", result |-> out.result,
                        raised |-> out.raised]
            /\ turn' = NoTurn
            /\ UNCHANGED <<store, current_request_id, created, rows, txn, conns>>

NextStore ==
    \/ DbList({0})
    \/ DbCreate({0})
    \/ DbUpdate({0})
    \/ DbGet({0})
    \/ DbDelete({0})
    \/ HasMovingRequest({0})
    \/ GetMovingRequestDetails({0})

SpecStore == InitStore /\ [][NextStore]_vars

(***************************************************************************)
(* The session with an unreliable store and conversation session           *)
(***************************************************************************)

\* The most calls one turn makes on the conversation session.
MaxSessionCalls == 5

\* Which of the session calls of a turn raise.
SessionFaults == [1..MaxSessionCalls -> BOOLEAN]

FaultMessages ==
    {Text(<<"c", "h", "e", "c", "k", " ", "4", "8", "2", "9", "1", "3">>),
     Text(<<"c", "h", "e", "c", "k">>),
     Text(<<"h", "e", "l", "l", "o">>),
     [is_list |-> TRUE, text |-> <<>>,
      parts |-> <<[image |-> FALSE, text |-> <<"h", "i">>],
                  [image |-> FALSE, text |-> Unprintable]>>]}

NextFaults ==
    \/ UserSpeechCommitted(FaultMessages, SessionFaults, {0, 1})
    \/ CreateMovingRequest({BaseFields, [BaseFields EXCEPT !.customer_name = <<>>]}, 0..2)

SpecFaults == Init /\ [][NextFaults]_vars

(***************************************************************************)
(* Properties                                                              *)
(***************************************************************************)

\* The state follows the handling of an utterance.
Handled == turn.handlers # <<>>

\* session.response.create() was called in the turn and returned.
Responded ==
    \E k \in 1..Len(turn.calls) :
        turn.calls[k].op = "response.create" /\ turn.calls[k].ok

\* The session calls of the turn that raised.
RaisedCalls == {k \in 1..Len(turn.calls) : ~turn.calls[k].ok}

\* The messages the handlers hand to send_error_response.
ErrorResponses == {lookup_apology, collect_apology, query_apology, error_apology}

\* The k-th session call of the turn was made by send_error_response.
InSendErrorResponse(k) ==
    \/ /\ turn.calls[k].op = "item.create"
       /\ turn.calls[k].content \in ErrorResponses
    \/ /\ turn.calls[k].op = "response.create"
       /\ k > 1
       /\ turn.calls[k - 1].op = "item.create"
       /\ turn.calls[k - 1].content \in ErrorResponses

FlattenFailed == turn.handlers = <<"send_error_response">>

\* The failures met in the turn: the raising calls on the conversation
\* session and a failing flattening of the content.
Failures == Cardinality(RaisedCalls) + (IF FlattenFailed THEN 1 ELSE 0)

TriggerPhrases ==
    {<<"c", "h", "e", "c", "k">>,
     <<"l", "o", "o", "k", " ", "u", "p">>,
     <<"l", "o", "o", "k", "u", "p">>,
     <<"m", "y", " ", "d", "e", "t", "a", "i", "l", "s">>,
     <<"r", "e", "q", "u", "e", "s", "t", " ", "i", "d">>}

\* Phrase p occurs in c at position i, letter case ignored.
OccursAt(p, c, i) ==
    /\ i + Len(p) - 1 <= Len(c)
    /\ \A j \in 1..Len(p) : c[i + j - 1] = p[j] \/ lower(<<c[i + j - 1]>>) = <<p[j]>>

MentionsTrigger(c) ==
    \E p \in TriggerPhrases : \E i \in 1..Len(c) : OccursAt(p, c, i)

\* The record under id is complete, in the words of the specification.
IsComplete(s, id) ==
    /\ id \in DOMAIN s
    /\ \A v \in {s[id].customer_name, s[id].email, s[id].phone_number,
                 s[id].phone_type, s[id].from_address, s[id].from_building_type,
                 s[id].to_address, s[id].move_date} : Len(v) > 0
    /\ s[id].from_bedrooms > 0
    /\ \/ ~s[id].assist_car
       \/ \A v \in {s[id].car_year, s[id].car_make, s[id].car_model} :
              v # None /\ Len(v) > 0

\* Six digits start at position i of c and no letter, digit or underscore
\* adjoins them.
StandaloneAt(c, i) ==
    /\ i + 5 <= Len(c)
    /\ \A j \in 0..5 : c[i + j] \in {"0", "1", "2", "3", "4", "5", "6", "7", "8", "9"}
    /\ i > 1 => ~IsWordChar(c[i - 1])
    /\ i + 5 < Len(c) => ~IsWordChar(c[i + 6])

HasToken(c) == \E i \in 1..Len(c) : StandaloneAt(c, i)

\* The first standalone 6-digit token of c.
FirstToken(c) ==
    LET i == CHOOSE i \in 1..Len(c) :
                 StandaloneAt(c, i) /\ \A j \in 1..(i - 1) : ~StandaloneAt(c, j)
    IN  SubSeq(c, i, i + 5)

\* The messages appended to the conversation in the turn.
Appended == SelectSeq(turn.calls, LAMBDA e : e.op = "item.create" /\ e.ok)

Ran(handler) == turn.handlers = <<handler>>

\* C2: classification is first match wins in the order lookup, query,
\* collect, and exactly one handler runs per utterance: a trigger phrase
\* gives lookup even when the session's record is complete, query needs no
\* trigger and a complete record, collect is what remains.
C2_FirstMatchWins ==
    Handled =>
        /\ Len(turn.handlers) = 1
        /\ Ran(IF MentionsTrigger(turn.content) THEN "handle_lookup_request"
               ELSE IF IsComplete(store, current_request_id) THEN "handle_query"
               ELSE "collect_moving_info")

\* A lookup utterance handled while the session's record is complete.
C2_Witness ==
    /\ Ran("handle_lookup_request")
    /\ IsComplete(store, current_request_id)
    /\ MentionsTrigger(turn.content)

SpecExample1 ==
    <<"c", "a", "n", " ", "y", "o", "u", " ", "c", "h", "e", "c", "k", " ", "m", "y", " ", "d", "e", "t", "a", "i", "l", "s", ",", " ", "r", "e", "q", "u", "e", "s", "t", " ", "i", "d", " ", "i", "s", " ", "4", "8", "2", "9", "1", "3">>

NotFoundText ==
    <<"Moving request not found. Please check your request ID and try again.">>

\* C3: a lookup utterance holding a standalone 6-digit token reads the store
\* once, with the first such token (not the session's id); the message
\* appended carries the summary of the record under that id when there is
\* one and the not-found text when there is none.
C3_LookupReadsFirstToken ==
    /\ (Handled /\ turn.content = SpecExample1) =>
           Ran("handle_lookup_request") /\ turn.reads = <<IdA>>
    /\ (Ran("handle_lookup_request") /\ HasToken(turn.content)) =>
           LET id == FirstToken(turn.content)
               summary == get_moving_request_str(store, id, 0)
           IN  /\ turn.reads = <<id>>
               /\ Len(Appended) = 1
               /\ SubSeq(Appended[1].content, 1, 7) = <<"Looking up request ID: ">> \o id
               /\ id \in DOMAIN store =>
                      /\ Contains(summary, Appended[1].content)
                      /\ Contains(<<"Request ID: ">> \o id \o <<"\n", "Customer Name: ">>
                                      \o store[id].customer_name \o <<"\n">>,
                                  Appended[1].content)
                      /\ ~Contains(NotFoundText, Appended[1].content)
               /\ id \notin DOMAIN store =>
                      /\ Contains(NotFoundText, Appended[1].content)
                      /\ ~Contains(<<"Request ID: ">>, Appended[1].content)

\* A lookup of a stored record that is not the session's, from an utterance
\* holding two tokens.
C3_Witness ==
    /\ Ran("handle_lookup_request")
    /\ HasToken(turn.content)
    /\ FirstToken(turn.content) # current_request_id
    /\ FirstToken(turn.content) \in DOMAIN store
    /\ current_request_id \in DOMAIN store
    /\ Contains(current_request_id, turn.content)
    /\ Len(Appended) = 1

\* C4: a lookup utterance with no standalone 6-digit token is answered with
\* the prompt for the 6-digit id and a response request, and the store is not
\* read in that turn.
C4_NoTokenNoRead ==
    (Ran("handle_lookup_request") /\ ~HasToken(turn.content)) =>
        /\ turn.reads = <<>>
        /\ turn.calls =
              <<[op |-> "item.create", role |-> "system", content |-> id_prompt, ok |-> TRUE],
                [op |-> "response.create", role |-> "", content |-> <<>>, ok |-> TRUE]>>

\* "check my details" handled while the session's id has a row.
C4_Witness ==
    /\ Ran("handle_lookup_request")
    /\ turn.content = <<"c", "h", "e", "c", "k", " ", "m", "y", " ", "d", "e", "t", "a", "i", "l", "s">>
    /\ current_request_id \in DOMAIN store
    /\ turn.reads = <<>>

\* C5: with no trigger phrase and a complete record under the session's id,
\* the utterance is appended with role user and exactly its own text; no other
\* branch appends a message with role user.
C5_QueryForwardedVerbatim ==
    /\ (Handled /\ ~MentionsTrigger(turn.content)
            /\ IsComplete(store, current_request_id)) =>
           /\ Len(Appended) = 1
           /\ Appended[1].role = "user"
           /\ Appended[1].content = turn.content
    /\ \A k \in 1..Len(turn.calls) :
           (turn.calls[k].op = "item.create" /\ turn.calls[k].role = "user") =>
               /\ Ran("handle_query")
               /\ ~MentionsTrigger(turn.content)
               /\ IsComplete(store, current_request_id)

\* "what's your refund policy" forwarded under a complete record.
C5_Witness ==
    /\ Ran("handle_query")
    /\ turn.content = <<"w", "h", "a", "t", "'", "s", " ", "y", "o", "u", "r", " ", "r", "e", "f", "u", "n", "d", " ", "p", "o", "l", "i", "c", "y">>
    /\ Len(Appended) = 1
    /\ Appended[1].role = "user"

\* C6: with no trigger phrase and a record under the session's id that is
\* incomplete or absent, the turn is a collect turn: one message is appended,
\* with role system, the field-collection instruction ending in the
\* utterance; the utterance is not appended as a user message.
C6_IncompleteMeansCollect ==
    (Handled /\ ~MentionsTrigger(turn.content)
         /\ ~IsComplete(store, current_request_id)) =>
        /\ Ran("collect_moving_info")
        /\ Len(Appended) = 1
        /\ Appended[1].role = "system"
        /\ Len(Appended[1].content) > Len(turn.content)
        /\ Contains(<<CollectionItems[1]>>, Appended[1].content)
        /\ SubSeq(Appended[1].content,
                  Len(Appended[1].content) - Len(turn.content),
                  Len(Appended[1].content))
              = <<"Here is the user's message: ">> \o turn.content
        /\ \A k \in 1..Len(turn.calls) : turn.calls[k].role # "user"

\* A collect turn under a record that exists and is incomplete.
C6_Witness ==
    /\ Ran("collect_moving_info")
    /\ current_request_id \in DOMAIN store
    /\ ~IsComplete(store, current_request_id)
    /\ Len(turn.content) > 0
    /\ Len(Appended) = 1

\* The record field each text item of the instruction asks for.
ItemField ==
    (1 :> "customer_name") @@ (2 :> "email") @@ (3 :> "phone_number")
        @@ (4 :> "from_address") @@ (6 :> "to_address") @@ (7 :> "move_date")

\* C7, as stated: the instruction of a collect turn lists a field exactly when
\* the session's stored record lacks it.
C7_InstructionNamesMissingFieldsOnly ==
    (Ran("collect_moving_info") /\ Len(Appended) = 1) =>
        \A k \in DOMAIN ItemField :
            Contains(<<CollectionItems[k]>>, Appended[1].content)
                <=> \/ current_request_id \notin DOMAIN store
                    \/ store[current_request_id][ItemField[k]] = <<>>

\* C7, amended: the instruction of a collect turn is fixed text around the
\* utterance; it names all ten collection items, in order, whatever the
\* session's stored record holds.
C7_InstructionNamesAllItems ==
    (Ran("collect_moving_info") /\ Len(Appended) = 1) =>
        LET content == Appended[1].content
        IN  /\ Len(content) = Len(CollectionItems) + 3 + Len(turn.content)
            /\ SubSeq(content, 2, Len(CollectionItems) + 1) = CollectionItems
            /\ SubSeq(content, Len(CollectionItems) + 4, Len(content)) = turn.content

\* A collect turn under a stored record whose customer name is present.
C7_Witness ==
    /\ Ran("collect_moving_info")
    /\ Len(Appended) = 1
    /\ current_request_id \in DOMAIN store
    /\ store[current_request_id].customer_name # <<>>
    /\ Contains(<<CollectionItems[1]>>, Appended[1].content)

\* C8: has_moving_request answers true exactly when the session's record
\* exists, its eight required text fields are non-empty, from_bedrooms > 0,
\* and assist_car is false or the three car fields are non-empty.
C8_CompletenessVerdict ==
    call.op = "has_moving_request" =>
        (call.result <=> IsComplete(store, current_request_id))

\* A true verdict for a record without car transport that stores car fields.
C8_Witness ==
    /\ call.op = "has_moving_request"
    /\ call.result
    /\ ~store[current_request_id].assist_car
    /\ store[current_request_id].car_year # None

FieldNames == DOMAIN BaseFields

TextFields ==
    {"customer_name", "email", "phone_number", "from_address", "to_address", "move_date"}

EnumFields == {"phone_type", "from_building_type"}

\* The step is a store create of an id that had no row, and it returned.
CreatedNew ==
    /\ call'.op = "DB.create_moving_request"
    /\ call'.raised = ""
    /\ call'.request_id \notin DOMAIN store

\* C9, as stated: a get right after the create of a new id returns a record
\* whose every field equals the value passed to create.
C9_RoundTripEqualsInput ==
    [][CreatedNew =>
           LET got == DB_get_moving_request(store', call'.request_id, 0).result
           IN  /\ got # NoRecord
               /\ got.request_id = call'.request_id
               /\ \A k \in FieldNames : got[k] = call'.fields[k]]_vars

\* C9, amended: a get right after the create of a new id returns the record
\* under that id whose text fields are the passed values stripped of
\* surrounding whitespace, whose phone_type and from_building_type are the
\* passed values in lower case, and whose other fields are the passed values.
C9_RoundTripNormalized ==
    [][CreatedNew =>
           LET got == DB_get_moving_request(store', call'.request_id, 0).result
               f == call'.fields
           IN  /\ got # NoRecord
               /\ got = call'.result
               /\ got.request_id = call'.request_id
               /\ \A k \in TextFields :
                      /\ Len(got[k]) <= Len(f[k])
                      /\ Contains(got[k], f[k])
                      /\ got[k] = <<>> \/ (got[k][1] \notin Whitespace
                                            /\ got[k][Len(got[k])] \notin Whitespace)
                      /\ \A i \in 1..Len(f[k]) :
                             f[k][i] \notin Whitespace => Contains(<<f[k][i]>>, got[k])
               /\ \A k \in EnumFields :
                      /\ Len(got[k]) = Len(f[k])
                      /\ \A i \in 1..Len(f[k]) : OccursAt(<<got[k][i]>>, f[k], i)
                      /\ got[k] \in PhoneTypes \cup BuildingTypes
               /\ \A k \in FieldNames \ (TextFields \cup EnumFields) : got[k] = f[k]]_vars

\* A create that returned a record whose stored customer name is the padded
\* input without its padding.
C9_Witness ==
    /\ call.op = "DB.create_moving_request"
    /\ call.raised = ""
    /\ call.result # NoRecord
    /\ call.fields.customer_name # call.result.customer_name
    /\ call.result = store[call.request_id]

\* C10: a store update of an id that has no row returns None and leaves the
\* table as it was (no row inserted, no other row changed), every time.
C10_UpdateMissingIsNoOp ==
    [][(call'.op = "DB.update_moving_request" /\ call'.request_id \notin DOMAIN store) =>
           /\ call'.result = NoRecord
           /\ call'.raised = ""
           /\ store' = store
           /\ call'.request_id \notin DOMAIN store']_vars

\* An update of a missing id answered None while another id has a row.
C10_Witness ==
    /\ call.op = "DB.update_moving_request"
    /\ call.request_id \notin DOMAIN store
    /\ call.result = NoRecord
    /\ DOMAIN store # {}

\* The field set passes the validation of the store's create.
ValidFields(f) ==
    /\ lower(f.phone_type) \in {<<"c", "e", "l", "l">>, <<"h", "o", "m", "e">>,
                                <<"w", "o", "r", "k">>}
    /\ lower(f.from_building_type) \in {<<"h", "o", "u", "s", "e">>,
                                        <<"a", "p", "a", "r", "t", "m", "e", "n", "t">>}
    /\ f.from_bedrooms > 0

\* The row under id holds the values of field set f: text fields without
\* surrounding whitespace, enumerated fields in lower case, the rest as passed.
Reflects(row, id, f) ==
    /\ row.request_id = id
    /\ \A k \in TextFields : row[k] = strip(f[k])
    /\ \A k \in EnumFields : row[k] = lower(f[k])
    /\ \A k \in FieldNames \ (TextFields \cup EnumFields) : row[k] = f[k]

\* C11: a store create with valid fields on an id that already has a row does
\* not fail; afterwards the table has the same ids, the row under that id
\* holds the values of this second call, and the other rows are unchanged.
C11_UpsertById ==
    [][(/\ call'.op = "DB.create_moving_request"
        /\ call'.request_id \in DOMAIN store
        /\ ValidFields(call'.fields)) =>
           /\ call'.raised = ""
           /\ DOMAIN store' = DOMAIN store
           /\ Reflects(store'[call'.request_id], call'.request_id, call'.fields)
           /\ call'.result = store'[call'.request_id]
           /\ \A i \in DOMAIN store \ {call'.request_id} : store'[i] = store[i]]_vars

\* A create on an existing id returned, and the row now has the flexible date
\* that only a second call passes.
C11_Witness ==
    /\ call.op = "DB.create_moving_request"
    /\ call.existed
    /\ call.raised = ""
    /\ call.fields.flexible_date
    /\ store[call.request_id].flexible_date

(***************************************************************************)
(* The table at the level of statements: two sessions whose store calls    *)
(* interleave.  rows is the committed content of moving_requests as a heap *)
(* of rows, so that two rows with one request_id can be told from one;     *)
(* txn is what each session's create holds between its statements.         *)
(***************************************************************************)

Sessions == {"s1", "s2"}

\* The field sets the two sessions write.
RaceFieldSets ==
    {BaseFields,
     [BaseFields EXCEPT !.flexible_date = TRUE],
     [BaseFields EXCEPT !.phone_type = <<"f", "a", "x">>]}

\* The positions of the committed rows with the given id.
Matching(t, request_id) == {k \in 1..Len(t) : t[k].request_id = request_id}

\* The ids of the rows other sessions have inserted and not yet committed.
Pending(tx, session) ==
    {tx[o].request_id : o \in {o \in DOMAIN tx \ {session} : tx[o].pc = "inserted"}}

\* request_id with no uniqueness constraint
PrimaryKey_absent(t, pending, request_id) == "ok"

\* request_id TEXT PRIMARY KEY, as an INSERT meets it: the statement waits
\* while another transaction holds an uncommitted row with the key, fails
\* when a committed row has the key, and inserts otherwise.
PrimaryKey(t, pending, request_id) ==
    IF request_id \in pending THEN "wait"
    ELSE IF Matching(t, request_id) # {} THEN "unique_violation"
    ELSE "ok"

\* The UPDATE statement on the heap: every row with the id is replaced.
UpdateRows(t, request_id, f) ==
    [k \in 1..Len(t) |-> IF t[k].request_id = request_id
                         THEN MovingRequest(request_id, f) ELSE t[k]]

\* The DELETE statement on the heap.
DeleteRows(t, request_id) == SelectSeq(t, LAMBDA r : r.request_id # request_id)

InitRace ==
    /\ store = EmptyStore
    /\ current_request_id = IdA
    /\ turn = NoTurn
    /\ call = NoCall
    /\ created = <<>>
    /\ rows = <<>>
    /\ txn = [s \in Sessions |-> NoTxn]
    /\ conns = NoConns

RaceFrame == UNCHANGED <<store, current_request_id, turn, call, created, conns>>

Finished(request_id, f, raised) ==
    [pc |-> "idle", request_id |-> request_id, fields |-> f, raised |-> raised]

\* create_moving_request up to its SELECT: the validation, the connection and
\* the existence check.
RaceCreateSelect(s) ==
    \E i \in Ids, f \in RaceFieldSets :
        /\ txn[s].pc = "idle"
        /\ txn' = [txn EXCEPT ![s] =
               IF \/ lower(f.phone_type) \notin PhoneTypes
                  \/ lower(f.from_building_type) \notin BuildingTypes
                  \/ f.from_bedrooms <= 0
               THEN Finished(i, f, "ValueError")
               ELSE [pc |-> IF Matching(rows, i) # {} THEN "exists" ELSE "absent",
                     request_id |-> i, fields |-> f, raised |-> ""]]
        /\ UNCHANGED rows
        /\ RaceFrame

\* The INSERT of a create whose SELECT found no row.
RaceCreateInsert(s) ==
    LET key == PrimaryKey(rows, Pending(txn, s), txn[s].request_id)
    IN  /\ txn[s].pc = "absent"
        /\ key # "wait"
        /\ txn' = [txn EXCEPT ![s] =
               IF key = "unique_violation"
               THEN Finished(txn[s].request_id, txn[s].fields, "ValueError")
               ELSE [txn[s] EXCEPT !.pc = "inserted"]]
        /\ UNCHANGED rows
        /\ RaceFrame

\* conn.commit() after the INSERT, and the read-back of the record.
RaceCreateCommit(s) ==
    /\ txn[s].pc = "inserted"
    /\ rows' = Append(rows, MovingRequest(txn[s].request_id, txn[s].fields))
    /\ txn' = [txn EXCEPT ![s] = Finished(txn[s].request_id, txn[s].fields, "")]
    /\ RaceFrame

\* The update_moving_request a create falls back to when its SELECT found a
\* row: UPDATE and commit on a connection of its own.
RaceCreateFallback(s) ==
    /\ txn[s].pc = "exists"
    /\ rows' = UpdateRows(rows, txn[s].request_id, txn[s].fields)
    /\ txn' = [txn EXCEPT ![s] = Finished(txn[s].request_id, txn[s].fields, "")]
    /\ RaceFrame

\* update_moving_request called on its own: one statement and its commit.
RaceUpdate(s) ==
    \E i \in Ids, f \in RaceFieldSets :
        /\ txn[s].pc = "idle"
        /\ IF Matching(rows, i) # {} /\ ~TableChecks(MovingRequest(i, f))
           THEN /\ txn' = [txn EXCEPT ![s] = Finished(i, f, "IntegrityError")]
                /\ UNCHANGED rows
           ELSE /\ txn' = [txn EXCEPT ![s] = Finished(i, f, "")]
                /\ rows' = UpdateRows(rows, i, f)
        /\ RaceFrame

\* delete_moving_request: one statement and its commit.
RaceDelete(s) ==
    \E i \in Ids :
        /\ txn[s].pc = "idle"
        /\ rows' = DeleteRows(rows, i)
        /\ txn' = [txn EXCEPT ![s] = Finished(i, BaseFields, "")]
        /\ RaceFrame

NextRace ==
    \E s \in Sessions :
        \/ RaceCreateSelect(s)
        \/ RaceCreateInsert(s)
        \/ RaceCreateCommit(s)
        \/ RaceCreateFallback(s)
        \/ RaceUpdate(s)
        \/ RaceDelete(s)

SpecRace == InitRace /\ [][NextRace]_vars

\* C12: the committed table never holds two rows with one request_id, under
\* any sequence of creates, updates and deletes and any interleaving of the
\* statements of two sessions' creates.
C12_OneRowPerRequestId ==
    \A j, k \in 1..Len(rows) : rows[j].request_id = rows[k].request_id => j = k

\* Both sessions ran their existence check for the same id before either
\* inserted; one has committed its row and the other's INSERT was refused.
C12_Witness ==
    \E s, o \in Sessions :
        /\ s # o
        /\ txn[s].pc = "idle" /\ txn[s].raised = ""
        /\ txn[o].pc = "idle" /\ txn[o].raised = "ValueError"
        /\ txn[o].request_id = txn[s].request_id
        /\ ValidFields(txn[o].fields)
        /\ Cardinality(Matching(rows, txn[s].request_id)) = 1

\* C13: a store delete returns true exactly when a row with the id existed
\* before; afterwards the id has no row, a get of it returns None, and the
\* rows of the other ids are unchanged.
C13_DeleteReportsAndRemoves ==
    [][call'.op = "DB.delete_moving_request" =>
           /\ call'.raised = ""
           /\ call'.result = (call'.request_id \in DOMAIN store)
           /\ DOMAIN store' = DOMAIN store \ {call'.request_id}
           /\ DB_get_moving_request(store', call'.request_id, 0).result = NoRecord
           /\ DB_get_moving_request(store', call'.request_id, 0).raised = ""
           /\ \A i \in DOMAIN store' : store'[i] = store[i]]_vars

\* A delete removed a row while the row of another id stayed.
C13_Witness ==
    /\ call.op = "DB.delete_moving_request"
    /\ call.result
    /\ call.request_id \notin DOMAIN store
    /\ DOMAIN store # {}

\* What list_all returns for the table of a state.
Listing(s, c) == DB_list_all_requests(s, c, 0).result

\* The position of the row with the id in a listing, 0 when it is not listed.
PositionIn(listing, request_id) ==
    LET at == {k \in 1..Len(listing) : listing[k].request_id = request_id}
    IN  IF at = {} THEN 0 ELSE CHOOSE k \in at : TRUE

\* C14: after every create, update and delete, list_all returns every stored
\* record exactly once; a row inserted by the step is listed first, and the
\* rows that were there before keep their order relative to each other, so an
\* update (or a create that fell back to update) moves nothing.
C14_ListNewestFirst ==
    [][LET before == Listing(store, created)
           after  == Listing(store', created')
       IN  /\ Len(after) = Cardinality(DOMAIN store')
           /\ \A i \in DOMAIN store' :
                  /\ PositionIn(after, i) > 0
                  /\ after[PositionIn(after, i)] = store'[i]
           /\ \A i \in DOMAIN store' \ DOMAIN store : PositionIn(after, i) = 1
           /\ \A i, j \in DOMAIN store' \cap DOMAIN store :
                  (PositionIn(before, i) < PositionIn(before, j))
                      <=> (PositionIn(after, i) < PositionIn(after, j))
           /\ (call'.op = "DB.list_all_requests" =>
                  call'.raised = "" /\ call'.result = after)]_vars

\* A listing of two rows in which the row listed last, the older one, holds
\* values no other id's row is written with.
C14_Witness ==
    /\ call.op = "DB.list_all_requests"
    /\ Len(call.result) = 2
    /\ call.result[1].request_id # call.result[2].request_id
    /\ call.result[2].flexible_date
    /\ ~call.result[1].flexible_date

\* The decimal text of the bedroom counts that are not above zero.
NonPositiveText == (0 :> <<"0">>) @@ (-1 :> <<"-", "1">>)

\* The fields of f that the store's create refuses, each with the words that
\* name it and the text of its value.
Offending(f) ==
    (IF ~ValidFields([f EXCEPT !.from_building_type = <<"h", "o", "u", "s", "e">>,
                               !.from_bedrooms = 1])
     THEN {[name |-> "Invalid phone_type: ", value |-> f.phone_type]} ELSE {})
    \cup
    (IF ~ValidFields([f EXCEPT !.phone_type = <<"c", "e", "l", "l">>,
                               !.from_bedrooms = 1])
     THEN {[name |-> "Invalid from_building_type: ", value |-> f.from_building_type]}
     ELSE {})
    \cup
    (IF f.from_bedrooms <= 0
     THEN {[name |-> "Invalid from_bedrooms: ", value |-> NonPositiveText[f.from_bedrooms]]}
     ELSE {})

\* C15: a store create whose phone_type or from_building_type is outside its
\* enumeration (in any letter case) or whose from_bedrooms is not above zero
\* raises a validation error that names an offending field with its value,
\* and leaves the table as it was, whether or not the id already has a row.
C15_CreateRejectsInvalid ==
    [][(call'.op = "DB.create_moving_request" /\ ~ValidFields(call'.fields)) =>
           /\ call'.raised = "ValueError"
           /\ \E o \in Offending(call'.fields) :
                  Contains(<<o.name>> \o o.value, call'.error)
           /\ store' = store]_vars

\* A create with no bedrooms on an id that has a row was refused.
C15_Witness ==
    /\ call.op = "DB.create_moving_request"
    /\ call.existed
    /\ call.fields.from_bedrooms <= 0
    /\ call.raised = "ValueError"
    /\ call.request_id \in DOMAIN store

\* The last step was a call of one of the assistant's two writing callables.
CallableRan(c) == c.op \in {"create_moving_request", "update_moving_request"}

\* Trimmed and in lower case, the phone type or the building type of f is
\* outside its enumeration.
EnumOutside(f) ==
    \/ strip(lower(f.phone_type))
           \notin {<<"c", "e", "l", "l">>, <<"h", "o", "m", "e">>, <<"w", "o", "r", "k">>}
    \/ strip(lower(f.from_building_type))
           \notin {<<"h", "o", "u", "s", "e">>,
                   <<"a", "p", "a", "r", "t", "m", "e", "n", "t">>}

\* assist_car is set and one of the car fields is missing or empty.
CarIncomplete(f) ==
    f.assist_car /\ \E v \in {f.car_year, f.car_make, f.car_model} : v = None \/ v = <<>>

C17_StoredEnumsAndBedroomsValid ==
    \A i \in DOMAIN store :
        /\ store[i].phone_type
               \in {<<"c", "e", "l", "l">>, <<"h", "o", "m", "e">>, <<"w", "o", "r", "k">>}
        /\ store[i].from_building_type
               \in {<<"h", "o", "u", "s", "e">>,
                    <<"a", "p", "a", "r", "t", "m", "e", "n", "t">>}
        /\ store[i].from_bedrooms > 0

\* A store update with no bedrooms was refused by the table on a row that
\* exists, and the row is still there.
C17_Witness ==
    /\ call.op = "DB.update_moving_request"
    /\ call.existed
    /\ call.fields.from_bedrooms <= 0
    /\ call.raised = "IntegrityError"
    /\ call.request_id \in DOMAIN store

\* C18: every stored record has a non-empty customer_name, email,
\* phone_number, from_address and to_address.
C18_StoredContactFieldsNonEmpty ==
    \A i \in DOMAIN store :
        \A k \in {"customer_name", "email", "phone_number", "from_address", "to_address"} :
            store[i][k] # <<>>

\* C19: no failure met while an utterance is handled leaves the handler: not
\* a failing flattening of the content, a failing store read, or a raising
\* call on the conversation session, the calls of send_error_response
\* included.
C19_NothingPropagates ==
    Handled => \A k \in 1..Len(turn.calls) : turn.calls[k].op # "raise"

\* A turn in which the call that raised last was made by send_error_response
\* after an earlier call of the turn had raised.
C19_Witness ==
    /\ Handled
    /\ Cardinality(RaisedCalls) >= 2
    /\ Len(turn.calls) \in RaisedCalls
    /\ InSendErrorResponse(Len(turn.calls))
    /\ ~Propagates(turn.calls)

\* The texts the router appends to say that something went wrong.
Apologies ==
    ErrorResponses
        \cup {<<"I encountered an error looking up your request. Please verify your request ID and try again.">>}

\* The k-th call of the turn appended an apology to the conversation: one of
\* the router's own, or a lookup message that carries the store's error text.
AppendedApology(k) ==
    /\ turn.calls[k].op = "item.create"
    /\ turn.calls[k].ok
    /\ \/ turn.calls[k].content \in Apologies
       \/ Contains(<<"I encountered an error retrieving your moving request details. Please try again.">>,
                   turn.calls[k].content)

\* C20: a turn that met a failure (a store read or a call on the conversation
\* session raising) appended exactly one apology, and the call after it is
\* the response request.
C20_ExactlyOneApology ==
    (Handled /\ (RaisedCalls # {} \/ turn.store_failed)) =>
        /\ Cardinality({k \in 1..Len(turn.calls) : AppendedApology(k)}) = 1
        /\ \A k \in 1..Len(turn.calls) :
               AppendedApology(k) =>
                   k < Len(turn.calls) /\ turn.calls[k + 1].op = "response.create"

\* The k-th call of the turn offers a message to the conversation that is an
\* apology: one of the router's own, or a lookup message that carries the
\* store's error text with its retry suggestion.
IsApology(content) ==
    \/ content \in Apologies
    \/ Contains(<<"I encountered an error retrieving your moving request details. Please try again.">>,
                content)

\* C21: in a turn in which the store was unavailable for the read the turn
\* made, neither the collect nor the query branch runs, and every message
\* appended is an apology with a retry suggestion that carries no record
\* summary and no not-found text.
C21_StoreFailureApologised ==
    (Handled /\ turn.store_failed) =>
        /\ ~Ran("collect_moving_info")
        /\ ~Ran("handle_query")
        /\ \A k \in 1..Len(Appended) :
               /\ IsApology(Appended[k].content)
               /\ ~Contains(<<"Here are your moving request details:\n">>, Appended[k].content)
               /\ ~Contains(NotFoundText, Appended[k].content)

\* The one defect of field set f, when it has exactly one: bedrooms not above
\* zero, an enumerated value outside its set, or car details missing while
\* assist_car is set.
Defects(f) ==
    (IF f.from_bedrooms <= 0 THEN {"from_bedrooms"} ELSE {})
        \cup (IF EnumOutside(f) THEN {"enum"} ELSE {})
        \cup (IF CarIncomplete(f) THEN {"car"} ELSE {})

\* The text names the field that is wrong.
NamesDefect(text, defect) ==
    \/ defect = "from_bedrooms" /\ Contains(<<"Invalid from_bedrooms: ">>, text)
    \/ defect = "enum" /\ text[1] \in {"Invalid phone type '", "Invalid building type '"}
    \/ defect = "car"
         /\ text = <<"Car transportation details are incomplete. Please provide the car year, make, and model.">>

\* C22: a create callable, or an update callable on an id that has a row,
\* whose arguments have exactly one defect returns a text that names the
\* wrong field, and the table is as it was.
C22_CallableNamesDefect ==
    [][(/\ CallableRan(call')
        /\ Cardinality(Defects(call'.fields)) = 1
        /\ (call'.op = "update_moving_request" => call'.request_id \in DOMAIN store)) =>
           /\ \E d \in Defects(call'.fields) : NamesDefect(call'.result, d)
           /\ store' = store]_vars

\* The text is six decimal digits.
SixDigits(id) ==
    /\ Len(id) = 6
    /\ \A k \in 1..6 : id[k] \in {"0", "1", "2", "3", "4", "5", "6", "7", "8", "9"}

\* C23: the session's request id is a 6-digit numeric string from the
\* construction of the assistant context on, no utterance and no callable
\* changes it, and a create callable leaves the rows of all other ids as they
\* were, adding or removing none.
C23_SessionBoundToOneId ==
    /\ SixDigits(current_request_id)
    /\ [][/\ current_request_id' = current_request_id
          /\ SixDigits(current_request_id')
          /\ call'.op = "create_moving_request" =>
                 /\ call'.request_id = current_request_id
                 /\ DOMAIN store' \ {current_request_id} = DOMAIN store \ {current_request_id}
                 /\ \A i \in DOMAIN store \ {current_request_id} : store'[i] = store[i]]_vars

\* The create callable wrote the session's row while another id has a row.
C23_Witness ==
    /\ call.op = "create_moving_request"
    /\ call.store_calls # <<>>
    /\ current_request_id \in DOMAIN store
    /\ store[current_request_id].flexible_date = call.fields.flexible_date
    /\ DOMAIN store \ {current_request_id} # {}

\* C24: no utterance and no callable of the assistant (lookup, get details,
\* create, update, get additional details) removes a row: the request ids in
\* the table after a step include those before it.
C24_ConversationNeverDeletes ==
    [][DOMAIN store \subseteq DOMAIN store']_vars

\* The update callable rewrote one of two rows; both ids are still there.
C24_Witness ==
    /\ call.op = "update_moving_request"
    /\ call.store_calls # <<>>
    /\ call.request_id \in DOMAIN store
    /\ store[call.request_id].flexible_date = call.fields.flexible_date
    /\ Cardinality(DOMAIN store) = 2

\* The positions of the car-details line in a summary.
CarBlocks(text) == {k \in 1..Len(text) : text[k] = "Car Details: "}

\* C25: the summary of the session's record, as get_moving_request_details
\* returns it, has exactly one car-details line with year, make and model when
\* assist_car is set and the three car fields are set, has none when
\* assist_car is not set whatever car fields are stored, prints flexible_date
\* and assist_car as Yes or No, and ends with the question about changes.
C25_SummaryCarBlock ==
    (call.op = "get_moving_request_details" /\ current_request_id \in DOMAIN store) =>
        LET r == store[current_request_id]
            text == call.result
        IN  /\ (/\ r.assist_car
                /\ \A v \in {r.car_year, r.car_make, r.car_model} : v # None /\ v # <<>>) =>
                   /\ Cardinality(CarBlocks(text)) = 1
                   /\ Contains(<<"Car Details: ">> \o r.car_year \o <<" ">> \o r.car_make
                                   \o <<" ">> \o r.car_model \o <<"\n">>, text)
            /\ ~r.assist_car => CarBlocks(text) = {}
            /\ Contains(<<"Flexible Date: ", IF r.flexible_date THEN "Yes" ELSE "No", "\n">>,
                        text)
            /\ Contains(<<"Car Transport: ", IF r.assist_car THEN "Yes" ELSE "No", "\n">>,
                        text)
            /\ text[Len(text)] = "\nWould you like to make any changes to these details?"

\* The summary of a record without car transport that stores car fields
\* shows no car-details line.
C25_Witness ==
    /\ call.op = "get_moving_request_details"
    /\ current_request_id \in DOMAIN store
    /\ ~store[current_request_id].assist_car
    /\ store[current_request_id].car_year = <<"9", "9">>
    /\ CarBlocks(call.result) = {}
    /\ Len(call.result) > 1

(***************************************************************************)
(* The DatabaseDriver operations step by step: every operation runs inside *)
(* `with self._get_connection() as conn`, create_moving_request and        *)
(* update_moving_request call update_moving_request and get_moving_request *)
(* from inside their own `with` block.  conns.stack holds the running      *)
(* calls, the innermost last; conns.open the connections that are open.    *)
(* psycopg2.connect and every statement may fail.                          *)
(***************************************************************************)

ConnOps ==
    {"create_moving_request", "get_moving_request", "update_moving_request",
     "delete_moving_request", "list_all_requests", "test_connection"}

\* The operations whose `with` block only reads.
ConnReadOps == {"get_moving_request", "list_all_requests", "test_connection"}

ConnFieldSets ==
    {BaseFields,
     Car(<<"9", "9">>, <<"V", "W">>, <<"G">>),
     [BaseFields EXCEPT !.from_bedrooms = 0]}

\* A call that has not yet entered its `with` block: conn = None.
Frame(op, request_id, f) ==
    [op |-> op, pc |-> "connect", conn |-> 0, request_id |-> request_id, fields |-> f]

Top == conns.stack[Len(conns.stack)]

\* The stack with its innermost frame replaced.
WithTop(frame) == [conns.stack EXCEPT ![Len(conns.stack)] = frame]

ConnFrame == UNCHANGED <<current_request_id, turn, call, rows, txn>>

Commit(s) ==
    /\ store' = s
    /\ created' = CreatedAfter(created, s)

InitConn ==
    /\ store = EmptyStore
    /\ current_request_id \in Ids
    /\ turn = NoTurn
    /\ call = NoCall
    /\ created = <<>>
    /\ rows = <<>>
    /\ txn = [s \in {} |-> NoTxn]
    /\ conns = NoConns

\* A caller invokes an operation.  create_moving_request validates its input
\* before it asks for a connection.
ConnCall ==
    /\ conns.stack = <<>>
    /\ \E op \in ConnOps, i \in Ids, f \in ConnFieldSets :
           LET invalid == /\ op = "create_moving_request"
                          /\ \/ lower(f.phone_type) \notin PhoneTypes
                             \/ lower(f.from_building_type) \notin BuildingTypes
                             \/ f.from_bedrooms <= 0
           IN  conns' = [open         |-> conns.open,
                         stack        |-> IF invalid THEN <<>> ELSE <<Frame(op, i, f)>>,
                         op           |-> op,
                         before       |-> Cardinality(conns.open),
                         opened       |-> 0,
                         outcome      |-> IF invalid THEN "raised" ELSE "none",
                         store_before |-> store]
    /\ UNCHANGED <<store, created>>
    /\ ConnFrame

\* conn = psycopg2.connect(...) succeeds and the `with` block is entered.
ConnConnect ==
    /\ conns.stack # <<>>
    /\ Top.pc = "connect"
    /\ LET h == 1 + Cardinality(conns.open)
       IN  conns' = [conns EXCEPT !.open = @ \cup {h},
                                  !.opened = @ + 1,
                                  !.stack = WithTop([Top EXCEPT !.pc = "body", !.conn = h])]
    /\ UNCHANGED <<store, created>>
    /\ ConnFrame

\* psycopg2.connect raises: conn is still None.
ConnConnectFails ==
    /\ conns.stack # <<>>
    /\ Top.pc = "connect"
    /\ conns' = [conns EXCEPT !.stack = WithTop([Top EXCEPT !.pc = "raise"])]
    /\ UNCHANGED <<store, created>>
    /\ ConnFrame

\* A statement or the commit of the `with` block raises; nothing was committed.
ConnStatementFails ==
    /\ conns.stack # <<>>
    /\ Top.pc = "body"
    /\ conns' = [conns EXCEPT !.stack = WithTop([Top EXCEPT !.pc = "raise"])]
    /\ UNCHANGED <<store, created>>
    /\ ConnFrame

\* get_moving_request, list_all_requests, test_connection: fetch and return.
ConnRead ==
    /\ conns.stack # <<>>
    /\ Top.pc = "body"
    /\ Top.op \in ConnReadOps
    /\ conns' = [conns EXCEPT !.stack = WithTop([Top EXCEPT !.pc = "return"])]
    /\ UNCHANGED <<store, created>>
    /\ ConnFrame

\* delete_moving_request: DELETE, commit, return deleted.
ConnDelete ==
    /\ conns.stack # <<>>
    /\ Top.pc = "body"
    /\ Top.op = "delete_moving_request"
    /\ Commit([i \in DOMAIN store \ {Top.request_id} |-> store[i]])
    /\ conns' = [conns EXCEPT !.stack = WithTop([Top EXCEPT !.pc = "return"])]
    /\ ConnFrame

\* update_moving_request: UPDATE; rowcount 0 returns None before the commit.
ConnUpdateNoRow ==
    /\ conns.stack # <<>>
    /\ Top.pc = "body"
    /\ Top.op = "update_moving_request"
    /\ Top.request_id \notin DOMAIN store
    /\ conns' = [conns EXCEPT !.stack = WithTop([Top EXCEPT !.pc = "return"])]
    /\ UNCHANGED <<store, created>>
    /\ ConnFrame

\* update_moving_request: UPDATE, commit, then get_moving_request is called
\* from inside the `with` block.  A row the CHECKs refuse raises instead.
ConnUpdate ==
    /\ conns.stack # <<>>
    /\ Top.pc = "body"
    /\ Top.op = "update_moving_request"
    /\ Top.request_id \in DOMAIN store
    /\ IF TableChecks(MovingRequest(Top.request_id, Top.fields))
       THEN /\ Commit(UpdateStatement(store, Top.request_id, Top.fields))
            /\ conns' = [conns EXCEPT !.stack =
                            Append(WithTop([Top EXCEPT !.pc = "nested"]),
                                   Frame("get_moving_request", Top.request_id, Top.fields))]
       ELSE /\ conns' = [conns EXCEPT !.stack = WithTop([Top EXCEPT !.pc = "raise"])]
            /\ UNCHANGED <<store, created>>
    /\ ConnFrame

\* create_moving_request: the SELECT finds the id and update_moving_request
\* is called from inside the `with` block.
ConnCreateExisting ==
    /\ conns.stack # <<>>
    /\ Top.pc = "body"
    /\ Top.op = "create_moving_request"
    /\ Top.request_id \in DOMAIN store
    /\ conns' = [conns EXCEPT !.stack =
                    Append(WithTop([Top EXCEPT !.pc = "nested"]),
                           Frame("update_moving_request", Top.request_id, Top.fields))]
    /\ UNCHANGED <<store, created>>
    /\ ConnFrame

\* create_moving_request: the SELECT finds nothing; INSERT, commit, then
\* get_moving_request is called from inside the `with` block.
ConnCreateInsert ==
    /\ conns.stack # <<>>
    /\ Top.pc = "body"
    /\ Top.op = "create_moving_request"
    /\ Top.request_id \notin DOMAIN store
    /\ Commit(InsertStatement(store, Top.request_id, Top.fields))
    /\ conns' = [conns EXCEPT !.stack =
                    Append(WithTop([Top EXCEPT !.pc = "nested"]),
                           Frame("get_moving_request", Top.request_id, Top.fields))]
    /\ ConnFrame

\* A _get_connection that closes the connection only when the block returns
Release_unless_raised(frame, open) ==
    IF frame.conn # 0 /\ frame.pc = "return" THEN open \ {frame.conn} ELSE open

\* finally: if conn: conn.close()
Release(frame, open) ==
    IF frame.conn # 0 THEN open \ {frame.conn} ELSE open

\* The innermost call leaves its `with` block by return or by exception: the
\* caller returns what the nested call returned, or the exception goes on
\* through the caller's own `with` block.  test_connection catches the
\* exception and returns False.
ConnExit ==
    /\ conns.stack # <<>>
    /\ Top.pc \in {"return", "raise"}
    /\ LET rest == SubSeq(conns.stack, 1, Len(conns.stack) - 1)
       IN  conns' = [conns EXCEPT
                        !.open = Release(Top, @),
                        !.stack = IF rest = <<>> THEN rest
                                  ELSE [rest EXCEPT ![Len(rest)].pc = Top.pc],
                        !.outcome = IF rest # <<>> THEN @
                                    ELSE IF Top.pc = "return" \/ Top.op = "test_connection"
                                         THEN "returned"
                                         ELSE "raised"]
    /\ UNCHANGED <<store, created>>
    /\ ConnFrame

NextConn ==
    \/ ConnCall
    \/ ConnConnect
    \/ ConnConnectFails
    \/ ConnStatementFails
    \/ ConnRead
    \/ ConnDelete
    \/ ConnUpdateNoRow
    \/ ConnUpdate
    \/ ConnCreateExisting
    \/ ConnCreateInsert
    \/ ConnExit

SpecConn == InitConn /\ [][NextConn]_vars

\* C26: once a store operation has returned or raised, the number of open
\* connections is what it was before the call, whichever path the operation
\* and the update and get it calls took.
\* The same holds of the nested calls: the connections open during an
\* operation are those of the calls still inside their `with` block.
C26_ConnectionsReleased ==
    /\ (conns.stack = <<>> /\ conns.outcome # "none") =>
           Cardinality(conns.open) = conns.before
    /\ conns.open = {conns.stack[k].conn : k \in DOMAIN conns.stack} \ {0}
    /\ \A j, k \in DOMAIN conns.stack :
           (j # k /\ conns.stack[j].conn # 0) => conns.stack[j].conn # conns.stack[k].conn

\* A create that raised after it had opened two connections and committed a
\* change: the call it made from inside its `with` block failed.
C26_Witness ==
    /\ conns.stack = <<>>
    /\ conns.op = "create_moving_request"
    /\ conns.outcome = "raised"
    /\ conns.opened = 2
    /\ conns.open = {}
    /\ store # conns.store_before

\* C28: a store create or update that raises leaves the table as it was
\* before the call; rows are inserted or changed only by calls that return.
C28_RaiseLeavesStoreUnchanged ==
    (/\ conns.stack = <<>>
     /\ conns.op \in {"create_moving_request", "update_moving_request"}
     /\ conns.outcome = "raised") =>
        store = conns.store_before

\* C27: a step that handles an utterance leaves the table and the creation
\* order of its rows as they were and reads the store at most once, on the
\* lookup, query, collect and error paths alike; the only steps of a session
\* that change the table are the create and update callables.
C27_HandlerLeavesStoreAlone ==
    [][/\ turn'.handlers # <<>> =>
              /\ store' = store
              /\ created' = created
              /\ Len(turn'.reads) <= 1
       /\ store' # store => call'.op \in {"create_moving_request", "update_moving_request"}]_vars

\* An utterance was handled on the query path, with one read of the store,
\* while the table holds a row.
C27_Witness ==
    /\ Ran("handle_query")
    /\ turn.reads = <<current_request_id>>
    /\ current_request_id \in DOMAIN store
    /\ Responded

\* C29: when two sessions holding the same request id call store create with
\* valid field values and their statements interleave, neither call raises,
\* and every committed row is the complete field set of one call, never a
\* mixture of two.
C29_RacingCreatesBothComplete ==
    /\ \A s \in Sessions :
           (txn[s].pc = "idle" /\ ValidFields(txn[s].fields)) => txn[s].raised = ""
    /\ \A k \in 1..Len(rows) :
           \E f \in RaceFieldSets : rows[k] = MovingRequest(rows[k].request_id, f)

\* C30: in the handling of one utterance a response request that succeeded
\* is the last call made on the conversation session, so that at most one
\* succeeds and no message is appended and no response requested after it,
\* on every branch and failure path.
C30_SuccessfulResponseIsLast ==
    Handled =>
        /\ \A k \in 1..Len(turn.calls) :
               (turn.calls[k].op = "response.create" /\ turn.calls[k].ok) =>
                   k = Len(turn.calls)
        /\ Cardinality({k \in 1..Len(turn.calls) :
                           turn.calls[k].op = "response.create" /\ turn.calls[k].ok}) <= 1

\* The handler's response request raised and the one of send_error_response
\* succeeded: two requests, the successful one last.
C30_Witness ==
    /\ Handled
    /\ Len(turn.calls) = 4
    /\ turn.calls[2].op = "response.create" /\ ~turn.calls[2].ok
    /\ turn.calls[3].op = "item.create" /\ turn.calls[3].ok
    /\ turn.calls[4].op = "response.create" /\ turn.calls[4].ok

====
